---- MODULE Spec2Model ----
(***************************************************************************)
(* Market Data Acquisition & Caching Engine                                *)
(* (backend/app/services/market_data.py and the Finnhub quote adapter of   *)
(* backend/app/services/finance_data.py).                                  *)
(*                                                                         *)
(* Prices are whole numbers standing for Python floats (175 for 175.0).    *)
(* A ticker is the sequence of its character codes, so that str.upper()    *)
(* is computed, not assumed.  A row time is an hour count, 24 hours to the *)
(* calendar day; an ISO date string is modelled by its day number.         *)
(* A cache key f"c:{TICKER}:{days}" is the tuple <<"c", TICKER, days>>.    *)
(***************************************************************************)
EXTENDS Integers, Sequences, FiniteSets, TLC

VARIABLES
    settings,     \* app.core.config.settings: DISABLE_CANDLES, PREFERRED_PROVIDER,
                  \* CACHE_TTL_SECONDS
    now,          \* time.time(), in seconds
    cache_q,      \* _cache_q:     key -> [ts, val]   (val: price)
    cache_c,      \* _cache_c:     key -> [ts, val]   (val: closes)
    cache_chart,  \* _cache_chart: key -> [ts, val]   (val: [dates, closes, provider])
    last,         \* the most recent call of a public operation: arguments, outcome,
                  \* the adapter invocations it made (a test double's call log), the
                  \* age its cache lookup computed, whether its key was cleared before,
                  \* whether the lists it returned are the objects the store holds
    ncalls,       \* number of public data calls made so far
    hist,         \* per cache key, the series a miss stored since the last clear
    cleared,      \* keys that were cached at a clear and not requested since
    threads       \* per handler thread, its position and locals inside a call

vars == <<settings, now, cache_q, cache_c, cache_chart, last, ncalls, hist, cleared, threads>>

----------------------------------------------------------------------------
(* Bounds of the model *)

MaxDays == 2
MaxCalls == 1
MaxCacheCalls == 3
MaxSkew == 1
MaxSeqLen == 5

----------------------------------------------------------------------------
(* Text *)

\* str.upper() on one character code: 'a'..'z' (97..122) become 'A'..'Z'.
UpperChar(c) == IF c >= 97 /\ c <= 122 THEN c - 32 ELSE c

\* str.upper()
Upper(s) == [i \in 1..Len(s) |-> UpperChar(s[i])]

\* (settings.PREFERRED_PROVIDER or "auto").lower(), on the configured values
Lower(p) ==
    CASE p = "" -> "auto"
      [] p = "Yahoo" -> "yahoo"
      [] p = "STOOQ" -> "stooq"
      [] p = "Finnhub" -> "finnhub"
      [] OTHER -> p

\* str.strip(), of spaces (code 32), as get_previous_close applies it
RECURSIVE LStrip(_)
LStrip(s) == IF s # <<>> /\ Head(s) = 32 THEN LStrip(Tail(s)) ELSE s

RECURSIVE RStrip(_)
RStrip(s) == IF s # <<>> /\ s[Len(s)] = 32 THEN RStrip(SubSeq(s, 1, Len(s) - 1)) ELSE s

Strip(s) == RStrip(LStrip(s))

\* "ge", "GE", " ge", "GE "
TickerLower == <<103, 101>>
TickerUpper == <<71, 69>>
TickerLeadingSpace == <<32, 103, 101>>
TickerTrailingSpace == <<71, 69, 32>>

----------------------------------------------------------------------------
(* TTL cache *)

\* _TTL = int(settings.CACHE_TTL_SECONDS or 600), with the default setting 600
_TTL == 600

\* int(v or 600): what the import makes of a setting v
TTLAtImport(v) == IF v = 0 THEN 600 ELSE v

MaxTime == _TTL + MaxSkew

EmptyStore == [k \in {} |-> 0]

\* store.pop(key, None)
Pop(store, key) == [k \in (DOMAIN store) \ {key} |-> store[k]]

\* A lookup that already treats an entry of age exactly _TTL as expired.
CacheGetExpiresAtTTL(store, key, t) ==
    IF key \notin DOMAIN store
    THEN [found |-> FALSE, store |-> store, age |-> -1]
    ELSE IF t - store[key].ts >= _TTL
         THEN [found |-> FALSE, store |-> Pop(store, key), age |-> t - store[key].ts]
         ELSE [found |-> TRUE, val |-> store[key].val, store |-> store,
               age |-> t - store[key].ts]

\* A lookup that returns whatever the key holds, however old.
CacheGetNoExpiry(store, key, t) ==
    IF key \notin DOMAIN store
    THEN [found |-> FALSE, store |-> store, age |-> -1]
    ELSE [found |-> TRUE, val |-> store[key].val, store |-> store,
          age |-> t - store[key].ts]

\* _cache_get: the value found (found = FALSE stands for None), the store
\* after the lookup, which lazily drops an expired entry, and the age
\* _now() - ts the lookup computed (-1 when the key held nothing).
_cache_get(store, key, t) ==
    IF key \notin DOMAIN store
    THEN [found |-> FALSE, store |-> store, age |-> -1]
    ELSE IF t - store[key].ts > _TTL
         THEN [found |-> FALSE, store |-> Pop(store, key), age |-> t - store[key].ts]
         ELSE [found |-> TRUE, val |-> store[key].val, store |-> store,
               age |-> t - store[key].ts]

\* A write that leaves an entry already under the key alone.
CachePutIfAbsent(store, key, val, t) ==
    IF key \in DOMAIN store THEN store
    ELSE [k \in (DOMAIN store) \cup {key} |-> IF k = key THEN [ts |-> t, val |-> val] ELSE store[k]]

\* _cache_put: store[key] = (_now(), val)
_cache_put(store, key, val, t) ==
    [k \in (DOMAIN store) \cup {key} |->
        IF k = key THEN [ts |-> t, val |-> val] ELSE store[k]]

----------------------------------------------------------------------------
(* Provider ordering *)

Providers == {"finnhub", "yahoo", "stooq"}

\* An ordering that ignores the preference.
ProviderOrderIgnoresPreference(pref) == <<"finnhub", "yahoo", "stooq">>

_provider_order(pref) ==
    LET p == Lower(pref) IN
    IF p = "finnhub" THEN <<"finnhub", "yahoo", "stooq">>
    ELSE IF p = "yahoo" THEN <<"yahoo", "finnhub", "stooq">>
    ELSE IF p = "stooq" THEN <<"stooq", "yahoo", "finnhub">>
    ELSE <<"finnhub", "yahoo", "stooq">>

----------------------------------------------------------------------------
(* The Finnhub quote adapter: what GET /quote can come to *)

QPrice(c) == [kind |-> "price", c |-> c]
QNoKey == [kind |-> "no_key", c |-> 0]            \* FINNHUB_API_KEY missing
QHttpError == [kind |-> "http_error", c |-> 0]    \* network failure, 401/403, non-2xx, bad JSON
QMissingC == [kind |-> "missing_c", c |-> 0]      \* JSON object without field "c"
QNonNumeric == [kind |-> "non_numeric", c |-> 0]  \* field "c" that float() rejects

\* finance_data.get_price: the price, or the exception it raises.
get_price(q) ==
    CASE q.kind = "no_key" -> [exc |-> "FinanceDataError", val |-> 0]
      [] q.kind = "http_error" -> [exc |-> "FinanceDataError", val |-> 0]
      [] q.kind = "missing_c" -> [exc |-> "FinanceDataError", val |-> 0]
      [] q.kind = "non_numeric" -> [exc |-> "ValueError", val |-> 0]
      [] OTHER -> [exc |-> "none", val |-> q.c]

QuoteKey(ticker) == <<"q", Upper(ticker)>>

\* A get_quote that stores the 0.0 it returns when the adapter fails.
GetQuoteCachingFailure(ticker, q, cq, t) ==
    LET key == QuoteKey(ticker)
        cv == _cache_get(cq, key, t)
        p == get_price(q)
    IN  IF cv.found
        THEN [exc |-> "none", val |-> cv.val, cache |-> cv.store,
              qcalls |-> <<>>, qhit |-> TRUE, age |-> cv.age]
        ELSE [exc |-> IF p.exc = "FinanceDataError" THEN "none" ELSE p.exc, val |-> p.val,
              cache |-> _cache_put(cv.store, key, p.val, t),
              qcalls |-> <<q>>, qhit |-> FALSE, age |-> cv.age]

\* get_quote: the exception that reaches the caller ("none": it returned val),
\* the quote cache afterwards, and whether the adapter was called.
get_quote(ticker, q, cq, t) ==
    LET key == QuoteKey(ticker)
        cv == _cache_get(cq, key, t)
    IN  IF cv.found
        THEN [exc |-> "none", val |-> cv.val, cache |-> cv.store,
              qcalls |-> <<>>, qhit |-> TRUE, age |-> cv.age]
        ELSE LET p == get_price(q) IN
             IF p.exc = "none"
             THEN [exc |-> "none", val |-> p.val,
                   cache |-> _cache_put(cv.store, key, p.val, t),
                   qcalls |-> <<q>>, qhit |-> FALSE, age |-> cv.age]
             ELSE IF p.exc = "FinanceDataError"
             THEN [exc |-> "none", val |-> 0, cache |-> cv.store,
                   qcalls |-> <<q>>, qhit |-> FALSE, age |-> cv.age]
             ELSE [exc |-> p.exc, val |-> 0, cache |-> cv.store,
                   qcalls |-> <<q>>, qhit |-> FALSE, age |-> cv.age]

----------------------------------------------------------------------------
(* Historical-series adapters: what one call of an adapter can come to *)

\* date.fromtimestamp(int(end_dt.timestamp())), as a day number
Today(t) == t \div 86400

\* The closes a vendor quotes: each vendor's differ from the others'.
VendorClose(prov, i) ==
    (CASE prov = "finnhub" -> 10 [] prov = "yahoo" -> 20 [] OTHER -> 30) + i

\* One daily row per calendar day of the window [now - days, now], stamped at
\* the vendor's hour of the day: {time, close} of the OHLCV row contract.
VendorRow(prov, days, i, t) ==
    [time |-> (Today(t) - (days - i)) * 24
                + (CASE prov = "finnhub" -> 0 [] prov = "yahoo" -> 5 [] OTHER -> 21),
     close |-> VendorClose(prov, i)]

RowsAsc(prov, days, t) == [i \in 1..days |-> VendorRow(prov, days, i, t)]

RowsDesc(prov, days, t) == [i \in 1..days |-> VendorRow(prov, days, days + 1 - i, t)]

OutcomeKinds == {"raise", "empty", "asc", "desc"}

\* _candles_from_finnhub / _candles_from_yahoo / _candles_from_stooq: the rows
\* the adapter returns, or that it raised.
_candles_from(prov, kind, days, t) ==
    CASE kind = "raise" -> [raised |-> TRUE, rows |-> <<>>]
      [] kind = "empty" -> [raised |-> FALSE, rows |-> <<>>]
      [] kind = "asc" -> [raised |-> FALSE, rows |-> RowsAsc(prov, days, t)]
      [] OTHER -> [raised |-> FALSE, rows |-> RowsDesc(prov, days, t)]

Max(a, b) == IF a >= b THEN a ELSE b

\* [x] * n
Repeat(x, n) == [i \in 1..n |-> x]

\* [float(r["close"]) for r in rows]
ClosesOf(rows) == [i \in 1..Len(rows) |-> rows[i].close]

\* r["time"].date().isoformat(), for every row
DatesOf(rows) == [i \in 1..Len(rows) |-> rows[i].time \div 24]

\* rows.sort(key=lambda r: r["time"]): a stable sort, ascending in time
RECURSIVE InsertByTime(_, _)
InsertByTime(sorted, r) ==
    IF sorted = <<>> THEN <<r>>
    ELSE IF r.time < Head(sorted).time THEN <<r>> \o sorted
    ELSE <<Head(sorted)>> \o InsertByTime(Tail(sorted), r)

RECURSIVE SortByTime(_)
SortByTime(rows) ==
    IF rows = <<>> THEN <<>>
    ELSE InsertByTime(SortByTime(SubSeq(rows, 1, Len(rows) - 1)), rows[Len(rows)])

\* [(today - timedelta(days=(days - 1 - i))).isoformat() for i in range(days)]
SyntheticDates(days, t) == [i \in 1..days |-> Today(t) - (days - i)]

\* A quote of 0.0 kept as it is.
KeepZero(p) == p

\* get_quote(ticker) or 100.0
OrPlaceholder(p) == IF p = 0 THEN 100 ELSE p

----------------------------------------------------------------------------
(* get_candles_close *)

CloseKey(ticker, days) == <<"c", Upper(ticker), days>>

\* A walk that gives up at the first adapter that raises.
RECURSIVE WalkCloseStopsOnRaise(_, _, _, _, _)
WalkCloseStopsOnRaise(order, i, world, days, t) ==
    IF i > Len(order)
    THEN [calls |-> <<>>, found |-> FALSE, closes |-> <<>>, prov |-> "none"]
    ELSE LET prov == order[i]
             out == _candles_from(prov, world[prov], days, t)
             call == [prov |-> prov, out |-> out]
             closes == IF (~out.raised) /\ out.rows # <<>> THEN ClosesOf(out.rows) ELSE <<>>
         IN  IF closes # <<>>
             THEN [calls |-> <<call>>, found |-> TRUE, closes |-> closes, prov |-> prov]
             ELSE IF out.raised
             THEN [calls |-> <<call>>, found |-> FALSE, closes |-> <<>>, prov |-> "none"]
             ELSE LET rest == WalkCloseStopsOnRaise(order, i + 1, world, days, t)
                  IN  [rest EXCEPT !.calls = <<call>> \o @]

\* The for-loop over _provider_order(): the adapters invoked, in order, each
\* with what it returned, and the closes of the first that gave rows.
RECURSIVE WalkClose(_, _, _, _, _)
WalkClose(order, i, world, days, t) ==
    IF i > Len(order)
    THEN [calls |-> <<>>, found |-> FALSE, closes |-> <<>>, prov |-> "none"]
    ELSE LET prov == order[i]
             out == _candles_from(prov, world[prov], days, t)
             call == [prov |-> prov, out |-> out]
             closes == IF (~out.raised) /\ out.rows # <<>> THEN ClosesOf(out.rows) ELSE <<>>
         IN  IF closes # <<>>
             THEN [calls |-> <<call>>, found |-> TRUE, closes |-> closes, prov |-> prov]
             ELSE LET rest == WalkClose(order, i + 1, world, days, t)
                  IN  [rest EXCEPT !.calls = <<call>> \o @]

\* The synthetic series of get_candles_close (both the disabled-flag path and
\* the exhaustion path): [last] * max(2, days)
SyntheticCloses(price, days) == Repeat(OrPlaceholder(price), Max(2, days))

\* resolution: str = "D"
DefaultResolution == "D"

\* get_candles_close after a cache miss: the provider walk, the synthetic
\* series on exhaustion, and the _cache_put of what is returned. store is the
\* close-series store as the walk finds it, age what the lookup computed.
CloseAfterMiss(ticker, days, key, world, q, cfg, store, cq, age, t) ==
    LET w == WalkClose(_provider_order(cfg.PREFERRED_PROVIDER), 1, world, days, t) IN
    IF w.found
    THEN [exc |-> "none", hit |-> FALSE, provider |-> w.prov, closes |-> w.closes,
          calls |-> w.calls, qcalls |-> <<>>,
          cache_c |-> _cache_put(store, key, w.closes, t), cache_q |-> cq,
          age |-> age, shared |-> FALSE]
    ELSE LET g == get_quote(ticker, q, cq, t)
             closes == SyntheticCloses(g.val, days)
         IN  IF g.exc = "none"
             THEN [exc |-> "none", hit |-> FALSE, provider |-> "synthetic",
                   closes |-> closes, calls |-> w.calls, qcalls |-> g.qcalls,
                   cache_c |-> _cache_put(store, key, closes, t),
                   cache_q |-> g.cache, age |-> age, shared |-> FALSE]
             ELSE [exc |-> g.exc, hit |-> FALSE, provider |-> "none",
                   closes |-> <<>>, calls |-> w.calls, qcalls |-> g.qcalls,
                   cache_c |-> store, cache_q |-> g.cache,
                   age |-> age, shared |-> FALSE]

\* get_candles_close without its test of DISABLE_CANDLES.
CloseIgnoringFlag(ticker, days0, resolution, world, q, cfg, cc, cq, t) ==
    LET days == Max(1, days0)
        key == CloseKey(ticker, days)
        cv == _cache_get(cc, key, t)
    IN  IF cv.found
        THEN [exc |-> "none", hit |-> TRUE, provider |-> "cache", closes |-> cv.val,
              calls |-> <<>>, qcalls |-> <<>>, cache_c |-> cv.store, cache_q |-> cq,
              age |-> cv.age, shared |-> FALSE]
        ELSE CloseAfterMiss(ticker, days, key, world, q, cfg, cv.store, cq, cv.age, t)

\* get_candles_close(ticker, days, resolution): what reaches the caller, the
\* two stores it may touch, and the adapter invocations it made. The body
\* never reads resolution.
get_candles_close(ticker, days0, resolution, world, q, cfg, cc, cq, t) ==
    IF cfg.DISABLE_CANDLES = 1
    THEN LET g == get_quote(ticker, q, cq, t) IN
         [exc |-> g.exc, hit |-> FALSE, provider |-> "synthetic",
          closes |-> IF g.exc = "none" THEN SyntheticCloses(g.val, days0) ELSE <<>>,
          calls |-> <<>>, qcalls |-> g.qcalls, cache_c |-> cc, cache_q |-> g.cache, age |-> -1, shared |-> FALSE]
    ELSE LET days == Max(1, days0)
             key == CloseKey(ticker, days)
             cv == _cache_get(cc, key, t)
         IN  IF cv.found
             THEN [exc |-> "none", hit |-> TRUE, provider |-> "cache", closes |-> cv.val,
                   calls |-> <<>>, qcalls |-> <<>>, cache_c |-> cv.store, cache_q |-> cq, age |-> cv.age, shared |-> FALSE]
             ELSE CloseAfterMiss(ticker, days, key, world, q, cfg, cv.store, cq, cv.age, t)

----------------------------------------------------------------------------
(* get_candles_rows_for_chart *)

ChartKey(ticker, days) == <<"chart", Upper(ticker), days>>

ChartVal(dates, closes, provider) ==
    [dates |-> dates, closes |-> closes, provider |-> provider]

\* A walk that keeps walking after the first rows and appends what the later
\* adapters return.
RECURSIVE WalkChartMerging(_, _, _, _, _)
WalkChartMerging(order, i, world, days, t) ==
    IF i > Len(order)
    THEN [calls |-> <<>>, found |-> FALSE, val |-> ChartVal(<<>>, <<>>, "none")]
    ELSE LET prov == order[i]
             out == _candles_from(prov, world[prov], days, t)
             call == [prov |-> prov, out |-> out]
             rest == WalkChartMerging(order, i + 1, world, days, t)
         IN  IF (~out.raised) /\ out.rows # <<>>
             THEN LET rows == SortByTime(out.rows) IN
                  [calls |-> <<call>> \o rest.calls, found |-> TRUE,
                   val |-> ChartVal(DatesOf(rows) \o rest.val.dates,
                                    ClosesOf(rows) \o rest.val.closes, prov)]
             ELSE [rest EXCEPT !.calls = <<call>> \o @]

\* The for-loop over _provider_order() of the chart variant.
RECURSIVE WalkChart(_, _, _, _, _)
WalkChart(order, i, world, days, t) ==
    IF i > Len(order)
    THEN [calls |-> <<>>, found |-> FALSE, val |-> ChartVal(<<>>, <<>>, "none")]
    ELSE LET prov == order[i]
             out == _candles_from(prov, world[prov], days, t)
             call == [prov |-> prov, out |-> out]
         IN  IF (~out.raised) /\ out.rows # <<>>
             THEN LET rows == SortByTime(out.rows) IN
                  [calls |-> <<call>>, found |-> TRUE,
                   val |-> ChartVal(DatesOf(rows), ClosesOf(rows), prov)]
             ELSE LET rest == WalkChart(order, i + 1, world, days, t)
                  IN  [rest EXCEPT !.calls = <<call>> \o @]

\* A synthetic chart value whose closes are padded to two as in
\* get_candles_close, while its dates are not.
SyntheticChartPadded(price, days, t) ==
    ChartVal(SyntheticDates(days, t), Repeat(OrPlaceholder(price), Max(2, days)), "synthetic")

\* The synthetic value of the chart variant (both paths): [last] * days with
\* the trailing calendar days, labelled synthetic.
SyntheticChart(price, days, t) ==
    ChartVal(SyntheticDates(days, t), Repeat(OrPlaceholder(price), days), "synthetic")

get_candles_rows_for_chart(ticker, days0, world, q, cfg, cch, cq, t) ==
    LET days == Max(1, days0) IN
    IF cfg.DISABLE_CANDLES = 1
    THEN LET g == get_quote(ticker, q, cq, t) IN
         [exc |-> g.exc, hit |-> FALSE,
          val |-> IF g.exc = "none" THEN SyntheticChart(g.val, days, t)
                  ELSE ChartVal(<<>>, <<>>, "none"),
          calls |-> <<>>, qcalls |-> g.qcalls, cache_chart |-> cch, cache_q |-> g.cache, age |-> -1, shared |-> FALSE]
    ELSE LET key == ChartKey(ticker, days)
             cv == _cache_get(cch, key, t)
         IN  IF cv.found
             THEN [exc |-> "none", hit |-> TRUE, val |-> cv.val,
                   calls |-> <<>>, qcalls |-> <<>>, cache_chart |-> cv.store, cache_q |-> cq,
                   age |-> cv.age, shared |-> TRUE]
             ELSE LET w == WalkChart(_provider_order(cfg.PREFERRED_PROVIDER), 1, world, days, t) IN
                  IF w.found
                  THEN [exc |-> "none", hit |-> FALSE, val |-> w.val,
                        calls |-> w.calls, qcalls |-> <<>>,
                        cache_chart |-> _cache_put(cv.store, key, w.val, t), cache_q |-> cq,
                        age |-> cv.age, shared |-> TRUE]
                  ELSE LET g == get_quote(ticker, q, cq, t)
                           val == SyntheticChart(g.val, days, t)
                       IN  IF g.exc = "none"
                           THEN [exc |-> "none", hit |-> FALSE, val |-> val,
                                 calls |-> w.calls, qcalls |-> g.qcalls,
                                 cache_chart |-> _cache_put(cv.store, key, val, t),
                                 cache_q |-> g.cache, age |-> cv.age, shared |-> TRUE]
                           ELSE [exc |-> g.exc, hit |-> FALSE,
                                 val |-> ChartVal(<<>>, <<>>, "none"),
                                 calls |-> w.calls, qcalls |-> g.qcalls,
                                 cache_chart |-> cv.store, cache_q |-> g.cache,
                                 age |-> cv.age, shared |-> FALSE]

\* The provider label a cached value carries. _cache_c holds list(closes), a
\* bare list of floats and nothing else; _cache_chart holds the tuple
\* (dates, closes, prov).
NoLabel == "none"
CloseEntryLabel(val) == NoLabel
ChartEntryLabel(val) == val.provider

----------------------------------------------------------------------------
(* debug_clear_cache *)

\* A clear that empties the quote store only.
ClearQuotesOnly(cq, cc, cch) ==
    [cleared |-> [quotes |-> Cardinality(DOMAIN cq),
                  candles |-> Cardinality(DOMAIN cc),
                  chart |-> Cardinality(DOMAIN cch)],
     cache_q |-> EmptyStore, cache_c |-> cc, cache_chart |-> cch]

\* A clear that reports the sizes of the stores after clearing them.
ClearReportsAfter(cq, cc, cch) ==
    [cleared |-> [quotes |-> 0, candles |-> 0, chart |-> 0],
     cache_q |-> EmptyStore, cache_c |-> EmptyStore, cache_chart |-> EmptyStore]

\* len() of the three stores before they are cleared
debug_clear_cache(cq, cc, cch) ==
    [cleared |-> [quotes |-> Cardinality(DOMAIN cq),
                  candles |-> Cardinality(DOMAIN cc),
                  chart |-> Cardinality(DOMAIN cch)],
     cache_q |-> EmptyStore, cache_c |-> EmptyStore, cache_chart |-> EmptyStore]

----------------------------------------------------------------------------
(* debug_status *)

\* debug_status(): the settings as they read at the call, the provider order,
\* the adapters available (both modules are part of the repository) and the
\* sizes of the three stores.
debug_status(cfg, cq, cc, cch) ==
    [DISABLE_CANDLES |-> cfg.DISABLE_CANDLES,
     PREFERRED_PROVIDER |-> cfg.PREFERRED_PROVIDER,
     CACHE_TTL_SECONDS |-> cfg.CACHE_TTL_SECONDS,
     provider_order |-> _provider_order(cfg.PREFERRED_PROVIDER),
     yahoo_available |-> TRUE,
     stooq_available |-> TRUE,
     cache_sizes |-> [quotes |-> Cardinality(DOMAIN cq),
                      candles |-> Cardinality(DOMAIN cc),
                      chart |-> Cardinality(DOMAIN cch)]]

----------------------------------------------------------------------------
(* compute_volatility and simple_trend_score *)

\* Returns, means and scores are exact fractions [n, d] in lowest terms with
\* d > 0, standing for the floats the code computes.
Abs(x) == IF x < 0 THEN -x ELSE x

Min(a, b) == IF a <= b THEN a ELSE b

RECURSIVE GCD(_, _)
GCD(a, b) == IF b = 0 THEN a ELSE GCD(b, a % b)

\* The fraction n / d, for d > 0
Rat(n, d) == LET g == GCD(Abs(n), d) IN [n |-> n \div g, d |-> d \div g]

Zero == Rat(0, 1)
One == Rat(1, 1)
MinusOne == Rat(-1, 1)

RatAdd(a, b) == Rat(a.n * b.d + b.n * a.d, a.d * b.d)
RatSub(a, b) == Rat(a.n * b.d - b.n * a.d, a.d * b.d)
RatMul(a, b) == Rat(a.n * b.n, a.d * b.d)
\* a / b, for b > 0
RatDiv(a, b) == Rat(a.n * b.d, a.d * b.n)
RatLess(a, b) == a.n * b.d < b.n * a.d
RatMin(a, b) == IF RatLess(b, a) THEN b ELSE a
RatMax(a, b) == IF RatLess(a, b) THEN b ELSE a

RECURSIVE RatSum(_)
RatSum(xs) == IF xs = <<>> THEN Zero ELSE RatAdd(Head(xs), RatSum(Tail(xs)))

RECURSIVE Sum(_)
Sum(xs) == IF xs = <<>> THEN 0 ELSE Head(xs) + Sum(Tail(xs))

\* [c for c in closes if c and c > 0]
Clean(closes) == SelectSeq(closes, LAMBDA c : c # 0 /\ c > 0)

\* The loop over range(1, len(clean)): (p1 / p0) - 1.0, skipping p0 <= 0
RECURSIVE Rets(_, _)
Rets(clean, i) ==
    IF i > Len(clean) THEN <<>>
    ELSE IF clean[i - 1] <= 0 THEN Rets(clean, i + 1)
    ELSE <<Rat(clean[i] - clean[i - 1], clean[i - 1])>> \o Rets(clean, i + 1)

\* The square of a variant of pstdev that divides by len - 1.
SampleVariance(xs) ==
    LET mean == RatDiv(RatSum(xs), Rat(Len(xs), 1))
        devsq == [i \in 1..Len(xs) |-> RatMul(RatSub(xs[i], mean), RatSub(xs[i], mean))]
    IN  RatDiv(RatSum(devsq), Rat(Len(xs) - 1, 1))

\* statistics.pstdev(xs), squared: the mean of the squared deviations from
\* the mean.
pvariance(xs) ==
    LET mean == RatDiv(RatSum(xs), Rat(Len(xs), 1))
        devsq == [i \in 1..Len(xs) |-> RatMul(RatSub(xs[i], mean), RatSub(xs[i], mean))]
    IN  RatDiv(RatSum(devsq), Rat(Len(xs), 1))

\* A volatility that takes the root mean square of the returns, of one
\* return too.
RootMeanSquareVolatility(closes) ==
    LET rets == Rets(Clean(closes), 2) IN
    IF rets = <<>> THEN Zero
    ELSE RatMul(Rat(252, 1),
                RatDiv(RatSum([i \in 1..Len(rets) |-> RatMul(rets[i], rets[i])]),
                       Rat(Len(rets), 1)))

\* compute_volatility, as the square of the float it returns:
\* (daily_vol * 252 ** 0.5) ** 2 = 252 * pstdev(rets) ** 2.
compute_volatility(closes) ==
    IF closes = <<>> \/ Len(closes) < 2 THEN Zero
    ELSE LET clean == Clean(closes) IN
         IF Len(clean) < 2 THEN Zero
         ELSE LET rets == Rets(clean, 2) IN
              IF Len(rets) < 2 THEN Zero
              ELSE RatMul(Rat(252, 1), pvariance(rets))

\* The score before max(-1.0, min(1.0, raw)) is applied.
RawTrendScore(closes) ==
    IF Len(closes) < 5 THEN Zero
    ELSE LET n == Min(20, Len(closes))
             sma == Rat(Sum(SubSeq(closes, Len(closes) - n + 1, Len(closes))), n)
         IN  IF sma.n <= 0 THEN Zero
             ELSE RatDiv(RatSub(Rat(closes[Len(closes)], 1), sma), sma)

\* A score against the mean of the whole series instead of the trailing 20.
TrendScoreOverWholeSeries(closes) ==
    IF Len(closes) < 5 THEN Zero
    ELSE LET sma == Rat(Sum(closes), Len(closes)) IN
         IF sma.n <= 0 THEN Zero
         ELSE RatMax(MinusOne,
                     RatMin(One, RatDiv(RatSub(Rat(closes[Len(closes)], 1), sma), sma)))

\* simple_trend_score
simple_trend_score(closes) ==
    IF Len(closes) < 5 THEN Zero
    ELSE LET n == Min(20, Len(closes))
             sma == Rat(Sum(SubSeq(closes, Len(closes) - n + 1, Len(closes))), n)
             lastClose == closes[Len(closes)]
         IN  IF sma.n <= 0 THEN Zero
             ELSE LET raw == RatDiv(RatSub(Rat(lastClose, 1), sma), sma) IN
                  RatMax(MinusOne, RatMin(One, raw))

----------------------------------------------------------------------------
(* get_previous_close *)

\* timedelta(days=10): the window of the two historical sources
PrevWindow == 10

\* What yf.Ticker(t).fast_info comes to: an exception, no previous close
\* (fast_info or both attributes None), or a previous close.
FastInfoKinds == {"raise", "none", "price"}

fast_info(kind) ==
    CASE kind = "raise" -> [raised |-> TRUE, has |-> FALSE, prev |-> 0]
      [] kind = "none" -> [raised |-> FALSE, has |-> FALSE, prev |-> 0]
      [] OTHER -> [raised |-> FALSE, has |-> TRUE, prev |-> 55]

\* The close of the row delivered last, whatever its time.
LastDeliveredClose(rows) == rows[Len(rows)].close

\* rows.sort(key=lambda r: r["time"]); float(rows[-1]["close"])
LatestClose(rows) == SortByTime(rows)[Len(rows)].close

\* get_previous_close: 1) Yahoo fast_info, 2) Stooq, 3) Finnhub, each in its
\* own try / except Exception: pass; None when none of them returned.
get_previous_close(ticker, world, t) ==
    LET y == fast_info(world.yahoo)
        s == _candles_from("stooq", world.stooq, PrevWindow, t)
        f == _candles_from("finnhub", world.finnhub, PrevWindow, t)
        cy == [prov |-> "yahoo", out |-> y]
        cs == [prov |-> "stooq", out |-> s]
        cf == [prov |-> "finnhub", out |-> f]
    IN  IF (~y.raised) /\ y.has
        THEN [isNone |-> FALSE, val |-> y.prev, source |-> "yahoo", calls |-> <<cy>>]
        ELSE IF (~s.raised) /\ s.rows # <<>>
        THEN [isNone |-> FALSE, val |-> LatestClose(s.rows), source |-> "stooq",
              calls |-> <<cy, cs>>]
        ELSE IF (~f.raised) /\ f.rows # <<>>
        THEN [isNone |-> FALSE, val |-> LatestClose(f.rows), source |-> "finnhub",
              calls |-> <<cy, cs, cf>>]
        ELSE [isNone |-> TRUE, val |-> 0, source |-> "none", calls |-> <<cy, cs, cf>>]

----------------------------------------------------------------------------
(* Request handlers running side by side *)

\* The handlers are plain def endpoints, which the server runs on a pool of
\* threads; nothing in market_data.py takes a lock.
Threads == {"t1", "t2"}

\* The locals of a thread inside _cache_get or get_candles_close: where it
\* stands (pc), its arguments, the (ts, val) it read, what it returned, the
\* adapter outcomes its walk met (seen), and whether its walk ran while the
\* walk of another thread for the same key was under way (raced).
Idle ==
    [pc |-> "idle", key |-> <<>>, ticker |-> <<>>, days |-> 0, ts |-> 0, val |-> <<>>,
     returned |-> FALSE, isNone |-> FALSE, ret |-> <<>>, seen |-> <<>>, raced |-> FALSE]

NoThreads == [th \in Threads |-> Idle]

----------------------------------------------------------------------------
(* The state machine *)

NoCall ==
    [op |-> "none", ticker |-> <<>>, days |-> 0, resolution |-> DefaultResolution,
     at |-> 0, exc |-> "none",
     hit |-> FALSE, provider |-> "none", closes |-> <<>>, dates |-> <<>>,
     price |-> 0, calls |-> <<>>, qcalls |-> <<>>, age |-> -1, afterClear |-> FALSE,
     counts |-> [quotes |-> 0, candles |-> 0, chart |-> 0],
     shared |-> FALSE, mutated |-> FALSE,
     vol |-> Zero, score |-> Zero, isNone |-> FALSE, ttl |-> 0]

\* What a cache miss that stored a series leaves in the history of its key:
\* when the miss populated the key, the value it returned, and the resolution
\* the request asked for.
HistAfter(h, key, hit, populated, val, res, t) ==
    IF hit \/ ~populated THEN h
    ELSE [k \in (DOMAIN h) \cup {key} |->
             IF k = key THEN [missAt |-> t, val |-> val, resolution |-> res] ELSE h[k]]

\* Values PREFERRED_PROVIDER is configured with: the default, the three
\* vendors (in some letter case), the empty string, and a value the code
\* does not know.
PrefValues == {"", "auto", "Yahoo", "stooq", "finnhub", "bogus"}

Init ==
    /\ settings \in [DISABLE_CANDLES : {0, 1},
                     PREFERRED_PROVIDER : PrefValues,
                     CACHE_TTL_SECONDS : {_TTL}]
    /\ now = 0
    /\ cache_q = EmptyStore
    /\ cache_c = EmptyStore
    /\ cache_chart = EmptyStore
    /\ last = NoCall
    /\ ncalls = 0
    /\ hist = EmptyStore
    /\ cleared = {}
    /\ threads = NoThreads

\* The clock moves on between calls: by a whole TTL, or by one second, up to
\* MaxSkew seconds past a multiple of the TTL.
Tick(dt) ==
    /\ now + dt <= MaxTime
    /\ dt < _TTL => (now % _TTL) + dt <= MaxSkew
    /\ now' = now + dt
    /\ UNCHANGED <<threads, settings, cache_q, cache_c, cache_chart, last, ncalls, hist, cleared>>

\* One call of get_quote.  (g ranges over the one result of the call.)
GetQuote(ticker, q) ==
    /\ \E g \in {get_quote(ticker, q, cache_q, now)} :
          /\ cache_q' = g.cache
          /\ last' = [NoCall EXCEPT !.op = "get_quote", !.ticker = ticker, !.at = now,
                                    !.exc = g.exc, !.hit = g.qhit, !.price = g.val,
                                    !.qcalls = g.qcalls, !.age = g.age]
    /\ ncalls' = ncalls + 1
    /\ UNCHANGED <<threads, settings, now, cache_c, cache_chart, hist, cleared>>

\* One call of get_candles_close.
GetCandlesClose(ticker, days, resolution, world, q) ==
    /\ \E r \in {get_candles_close(ticker, days, resolution, world, q, settings,
                                   cache_c, cache_q, now)},
          key \in {CloseKey(ticker, Max(1, days))} :
          /\ cache_c' = r.cache_c
          /\ cache_q' = r.cache_q
          /\ last' = [NoCall EXCEPT !.op = "get_candles_close", !.ticker = ticker,
                                    !.days = days, !.resolution = resolution,
                                    !.at = now, !.exc = r.exc, !.hit = r.hit,
                                    !.provider = r.provider, !.closes = r.closes,
                                    !.calls = r.calls, !.qcalls = r.qcalls,
                                    !.age = r.age, !.afterClear = (key \in cleared),
                                    !.shared = r.shared]
          /\ hist' = IF r.exc = "none"
                     THEN HistAfter(hist, key, r.hit, settings.DISABLE_CANDLES # 1,
                                    r.closes, resolution, now)
                     ELSE hist
          /\ cleared' = cleared \ {key}
    /\ ncalls' = ncalls + 1
    /\ UNCHANGED <<threads, settings, now, cache_chart>>

\* One call of get_candles_rows_for_chart.
GetCandlesRowsForChart(ticker, days, world, q) ==
    /\ \E r \in {get_candles_rows_for_chart(ticker, days, world, q, settings,
                                            cache_chart, cache_q, now)},
          key \in {ChartKey(ticker, Max(1, days))} :
          /\ cache_chart' = r.cache_chart
          /\ cache_q' = r.cache_q
          /\ last' = [NoCall EXCEPT !.op = "get_candles_rows_for_chart", !.ticker = ticker,
                                    !.days = days, !.at = now, !.exc = r.exc, !.hit = r.hit,
                                    !.provider = r.val.provider, !.closes = r.val.closes,
                                    !.dates = r.val.dates,
                                    !.calls = r.calls, !.qcalls = r.qcalls,
                                    !.age = r.age, !.afterClear = (key \in cleared),
                                    !.shared = r.shared]
          /\ hist' = IF r.exc = "none"
                     THEN HistAfter(hist, key, r.hit, settings.DISABLE_CANDLES # 1,
                                    r.val, DefaultResolution, now)
                     ELSE hist
          /\ cleared' = cleared \ {key}
    /\ ncalls' = ncalls + 1
    /\ UNCHANGED <<threads, settings, now, cache_c>>

\* One call of debug_clear_cache.
DebugClearCache ==
    /\ \E r \in {debug_clear_cache(cache_q, cache_c, cache_chart)} :
          /\ cache_q' = r.cache_q
          /\ cache_c' = r.cache_c
          /\ cache_chart' = r.cache_chart
          /\ last' = [NoCall EXCEPT !.op = "debug_clear_cache", !.at = now,
                                    !.counts = r.cleared]
    /\ cleared' = cleared \cup DOMAIN cache_q \cup DOMAIN cache_c \cup DOMAIN cache_chart
    /\ hist' = EmptyStore
    /\ UNCHANGED <<threads, settings, now, ncalls>>

\* The caller changes in place the closes list the latest series call handed
\* it (closes.append(0.0)).  When that list is the very object held in the
\* chart store (get_candles_rows_for_chart returns cv / val themselves), the
\* stored value changes with it; get_candles_close hands out and stores
\* copies (list(cv), list(closes)), so its store is out of the caller's reach.
CallerMutates ==
    /\ last.op \in {"get_candles_close", "get_candles_rows_for_chart"}
    /\ last.exc = "none" /\ ~last.mutated
    /\ last' = [last EXCEPT !.closes = Append(@, 0), !.mutated = TRUE]
    /\ \E key \in {ChartKey(last.ticker, Max(1, last.days))} :
          cache_chart' =
              IF last.op = "get_candles_rows_for_chart" /\ last.shared
                    /\ key \in DOMAIN cache_chart
              THEN [cache_chart EXCEPT ![key].val.closes = Append(@, 0)]
              ELSE cache_chart
    /\ UNCHANGED <<threads, settings, now, cache_q, cache_c, ncalls, hist, cleared>>

\* One call of get_previous_close.
GetPreviousClose(ticker, world) ==
    /\ \E r \in {get_previous_close(ticker, world, now)} :
          last' = [NoCall EXCEPT !.op = "get_previous_close", !.ticker = ticker,
                                 !.at = now, !.isNone = r.isNone, !.price = r.val,
                                 !.provider = r.source, !.calls = r.calls]
    /\ UNCHANGED <<threads, settings, now, cache_q, cache_c, cache_chart, ncalls, hist, cleared>>

\* _cache_get on the quote store, statement by statement, on one thread.
\* it = store.get(key); if not it: return None
CacheGetRead(th, key) ==
    /\ threads[th].pc = "idle"
    /\ threads' = [threads EXCEPT ![th] =
          IF key \in DOMAIN cache_q
          THEN [Idle EXCEPT !.pc = "check", !.key = key,
                            !.ts = cache_q[key].ts, !.val = cache_q[key].val]
          ELSE [Idle EXCEPT !.key = key, !.returned = TRUE, !.isNone = TRUE]]
    /\ ncalls' = ncalls + 1
    /\ UNCHANGED <<settings, now, cache_q, cache_c, cache_chart, last, hist, cleared>>

\* ts, val = it; if _now() - ts > _TTL: ... else: return val
CacheGetCheck(th) ==
    /\ threads[th].pc = "check"
    /\ threads' = [threads EXCEPT ![th] =
          IF now - threads[th].ts > _TTL
          THEN [@ EXCEPT !.pc = "pop"]
          ELSE [@ EXCEPT !.pc = "idle", !.returned = TRUE, !.isNone = FALSE,
                         !.ret = threads[th].val]]
    /\ UNCHANGED <<settings, now, cache_q, cache_c, cache_chart, last, ncalls, hist, cleared>>

\* store.pop(key, None); return None
CacheGetPop(th) ==
    /\ threads[th].pc = "pop"
    /\ cache_q' = Pop(cache_q, threads[th].key)
    /\ threads' = [threads EXCEPT ![th] =
          [@ EXCEPT !.pc = "idle", !.returned = TRUE, !.isNone = TRUE]]
    /\ UNCHANGED <<settings, now, cache_c, cache_chart, last, ncalls, hist, cleared>>

\* _cache_put on the quote store, on one thread.
CachePut(th, key, val) ==
    /\ threads[th].pc = "idle"
    /\ cache_q' = _cache_put(cache_q, key, val, now)
    /\ threads' = [threads EXCEPT ![th] = [Idle EXCEPT !.key = key]]
    /\ ncalls' = ncalls + 1
    /\ UNCHANGED <<settings, now, cache_c, cache_chart, last, hist, cleared>>

\* get_candles_close on one thread, up to the cache lookup (flag off): a hit
\* returns the copy; a miss leaves the thread before the provider walk.
CloseLookup(th, ticker, days0) ==
    /\ threads[th].pc = "idle"
    /\ settings.DISABLE_CANDLES # 1
    /\ \E days \in {Max(1, days0)} :
       \E key \in {CloseKey(ticker, days)} :
       \E cv \in {_cache_get(cache_c, key, now)} :
          /\ cache_c' = cv.store
          /\ IF cv.found
             THEN /\ threads' = [threads EXCEPT ![th] =
                        [Idle EXCEPT !.key = key, !.ticker = ticker, !.days = days,
                                     !.returned = TRUE, !.ret = cv.val]]
                  /\ last' = [NoCall EXCEPT !.op = "get_candles_close", !.ticker = ticker,
                                            !.days = days0, !.at = now, !.hit = TRUE,
                                            !.provider = "cache", !.closes = cv.val,
                                            !.age = cv.age]
             ELSE /\ threads' =
                        [t \in Threads |->
                            IF t = th
                            THEN [Idle EXCEPT !.pc = "walk", !.key = key, !.ticker = ticker,
                                              !.days = days,
                                              !.raced = \E o \in Threads \ {th} :
                                                  threads[o].pc = "walk" /\ threads[o].key = key]
                            ELSE IF threads[t].pc = "walk" /\ threads[t].key = key
                                 THEN [threads[t] EXCEPT !.raced = TRUE]
                                 ELSE threads[t]]
                  /\ last' = last
    /\ ncalls' = ncalls + 1
    /\ UNCHANGED <<settings, now, cache_q, cache_chart, hist, cleared>>

\* The rest of get_candles_close on one thread after its miss: the provider
\* walk, the synthetic series on exhaustion, the _cache_put and the return.
CloseWalk(th, world, q) ==
    /\ threads[th].pc = "walk"
    /\ \E r \in {CloseAfterMiss(threads[th].ticker, threads[th].days, threads[th].key,
                                world, q, settings, cache_c, cache_q, -1, now)} :
          /\ cache_c' = r.cache_c
          /\ cache_q' = r.cache_q
          /\ threads' = [threads EXCEPT ![th] =
                [@ EXCEPT !.pc = "idle", !.returned = (r.exc = "none"), !.ret = r.closes,
                          !.seen = <<world, q>>]]
          /\ last' = [NoCall EXCEPT !.op = "get_candles_close",
                                    !.ticker = threads[th].ticker,
                                    !.days = threads[th].days, !.at = now, !.exc = r.exc,
                                    !.provider = r.provider, !.closes = r.closes,
                                    !.calls = r.calls, !.qcalls = r.qcalls]
    /\ UNCHANGED <<settings, now, cache_chart, ncalls, hist, cleared>>

\* settings.DISABLE_CANDLES given another value while the process runs; the
\* series operations read the attribute on every call.
SetDisableCandles(v) ==
    /\ settings.DISABLE_CANDLES # v
    /\ settings' = [settings EXCEPT !.DISABLE_CANDLES = v]
    /\ UNCHANGED <<now, cache_q, cache_c, cache_chart, last, ncalls, hist, cleared, threads>>

\* One call of debug_status.
DebugStatus ==
    /\ \E r \in {debug_status(settings, cache_q, cache_c, cache_chart)} :
          last' = [NoCall EXCEPT !.op = "debug_status", !.at = now,
                                 !.ttl = r.CACHE_TTL_SECONDS, !.counts = r.cache_sizes]
    /\ UNCHANGED <<settings, now, cache_q, cache_c, cache_chart, ncalls, hist, cleared,
                   threads>>

\* settings.CACHE_TTL_SECONDS given another value while the process runs.
SetCacheTTL(v) ==
    /\ settings.CACHE_TTL_SECONDS # v
    /\ settings' = [settings EXCEPT !.CACHE_TTL_SECONDS = v]
    /\ UNCHANGED <<now, cache_q, cache_c, cache_chart, last, ncalls, hist, cleared, threads>>

\* compute_volatility applied to the closes at hand.
ComputeVolatility ==
    /\ last.op = "none"
    /\ Len(last.closes) <= MaxSeqLen
    /\ last' = [last EXCEPT !.op = "compute_volatility",
                            !.vol = compute_volatility(last.closes)]
    /\ UNCHANGED <<threads, settings, now, cache_q, cache_c, cache_chart, ncalls, hist, cleared>>

\* simple_trend_score applied to the closes at hand.
SimpleTrendScore ==
    /\ last.op = "none"
    /\ last' = [last EXCEPT !.op = "simple_trend_score",
                            !.score = simple_trend_score(last.closes)]
    /\ UNCHANGED <<threads, settings, now, cache_q, cache_c, cache_chart, ncalls, hist, cleared>>

----------------------------------------------------------------------------
(* Spec: calls against every combination of adapter outcomes *)

Tickers == {TickerLower}
Days == 1..MaxDays
Worlds == [Providers -> OutcomeKinds]
QuoteOutcomes == {QPrice(175), QHttpError, QNonNumeric}

Next ==
    \/ ncalls < MaxCalls /\ \E t \in Tickers, q \in QuoteOutcomes : GetQuote(t, q)
    \/ ncalls < MaxCalls /\ \E t \in Tickers, d \in Days, w \in Worlds, q \in QuoteOutcomes :
          GetCandlesClose(t, d, DefaultResolution, w, q)
    \/ ncalls < MaxCalls /\ \E t \in Tickers, d \in Days, w \in Worlds, q \in QuoteOutcomes :
          GetCandlesRowsForChart(t, d, w, q)
    \/ DebugClearCache

Spec == Init /\ [][Next]_vars

----------------------------------------------------------------------------
(* SpecCache: calls spread over time, against a few adapter outcomes *)

\* Every adapter empty; or the primary raises and the secondary gives rows.
CacheWorlds ==
    {[p \in Providers |-> "empty"],
     [p \in Providers |-> IF p = "finnhub" THEN "raise"
                          ELSE IF p = "yahoo" THEN "desc" ELSE "empty"]}

\* The shortest and the longest window.
CacheDays == {1, MaxDays}

CacheQuoteOutcomes == {QPrice(175), QHttpError}

\* One second, or a whole TTL.
TickSteps == {1, _TTL}

InitCache == Init /\ settings.PREFERRED_PROVIDER = "auto"

NextCache ==
    \/ ncalls < MaxCacheCalls /\ \E t \in Tickers, q \in CacheQuoteOutcomes : GetQuote(t, q)
    \/ ncalls < MaxCacheCalls
          /\ \E t \in Tickers, d \in CacheDays, w \in CacheWorlds, q \in CacheQuoteOutcomes :
                GetCandlesClose(t, d, DefaultResolution, w, q)
    \/ ncalls < MaxCacheCalls
          /\ \E t \in Tickers, d \in CacheDays, w \in CacheWorlds, q \in CacheQuoteOutcomes :
                GetCandlesRowsForChart(t, d, w, q)
    \/ DebugClearCache
    \/ \E dt \in TickSteps : Tick(dt)

SpecCache == InitCache /\ [][NextCache]_vars

----------------------------------------------------------------------------
(* SpecDisabled: the candles-disabled deployment, as the endpoint tests run it *)

\* days of the requests in tests/test_chart.py and tests/test_history_endpoint.py
TestDays == 10

DisabledDays == (1..MaxDays) \cup {TestDays}

\* The clock at start-up: the last second of a day, and the first of the next.
StartTimes == {86399, 86400}

\* Every historical adapter would return rows, were it asked.
DisabledWorld == [p \in Providers |-> "asc"]

InitDisabled ==
    /\ settings = [DISABLE_CANDLES |-> 1, PREFERRED_PROVIDER |-> "auto",
                   CACHE_TTL_SECONDS |-> _TTL]
    /\ now \in StartTimes
    /\ cache_q = EmptyStore
    /\ cache_c = EmptyStore
    /\ cache_chart = EmptyStore
    /\ last = NoCall
    /\ ncalls = 0
    /\ hist = EmptyStore
    /\ cleared = {}
    /\ threads = NoThreads

NextDisabled ==
    \/ ncalls < MaxCacheCalls /\ \E t \in Tickers, q \in QuoteOutcomes : GetQuote(t, q)
    \/ ncalls < MaxCacheCalls /\ \E t \in Tickers, d \in DisabledDays, q \in QuoteOutcomes :
          GetCandlesClose(t, d, DefaultResolution, DisabledWorld, q)
    \/ ncalls < MaxCacheCalls /\ \E t \in Tickers, d \in DisabledDays, q \in QuoteOutcomes :
          GetCandlesRowsForChart(t, d, DisabledWorld, q)
    \/ DebugClearCache

SpecDisabled == InitDisabled /\ [][NextDisabled]_vars

----------------------------------------------------------------------------
(* SpecAlias: callers that change the lists they were handed *)

InitAlias == InitCache /\ settings.DISABLE_CANDLES = 0

NextAlias ==
    \/ ncalls < MaxCacheCalls /\ \E t \in Tickers, q \in CacheQuoteOutcomes : GetQuote(t, q)
    \/ ncalls < MaxCacheCalls
          /\ \E t \in Tickers, d \in CacheDays, w \in CacheWorlds, q \in CacheQuoteOutcomes :
                GetCandlesClose(t, d, DefaultResolution, w, q)
    \/ ncalls < MaxCacheCalls
          /\ \E t \in Tickers, d \in CacheDays, w \in CacheWorlds, q \in CacheQuoteOutcomes :
                GetCandlesRowsForChart(t, d, w, q)
    \/ DebugClearCache
    \/ CallerMutates

SpecAlias == InitAlias /\ [][NextAlias]_vars

----------------------------------------------------------------------------
(* SpecTicker: quotes asked for under several spellings of one ticker *)

Spellings == {TickerLower, TickerUpper, TickerLeadingSpace, TickerTrailingSpace}

NextTicker ==
    \/ ncalls < MaxCacheCalls
          /\ \E t \in Spellings, q \in CacheQuoteOutcomes : GetQuote(t, q)
    \/ DebugClearCache

SpecTicker == InitAlias /\ [][NextTicker]_vars

----------------------------------------------------------------------------
(* SpecStats: the two statistics applied to close sequences *)

\* Closes: negative, zero, and a few small prices.
StatValues == {-1, 0, 1, 2, 3}

\* [100, 110] and longer series of the same prices.
StatExamples ==
    {<<100, 110>>, <<100, 100>>, <<100, 110, 121>>, <<100, 110, 110>>, <<100, 100, 100>>}

\* Series longer than the 20-close window of the trend score.
LongSeries == {<<a>> \o Repeat(b, 19) \o <<c>> : a, b, c \in StatValues}

\* [100] * 20 + [130]
TrendExample == Repeat(100, 20) \o <<130>>

StatInputs ==
    UNION {[1..k -> StatValues] : k \in 0..MaxSeqLen}
        \cup StatExamples \cup LongSeries \cup {TrendExample}

InitStats ==
    /\ settings = [DISABLE_CANDLES |-> 0, PREFERRED_PROVIDER |-> "auto",
                   CACHE_TTL_SECONDS |-> _TTL]
    /\ now = 0
    /\ cache_q = EmptyStore
    /\ cache_c = EmptyStore
    /\ cache_chart = EmptyStore
    /\ last \in {[NoCall EXCEPT !.closes = c] : c \in StatInputs}
    /\ ncalls = 0
    /\ hist = EmptyStore
    /\ cleared = {}
    /\ threads = NoThreads

NextStats == ComputeVolatility \/ SimpleTrendScore

SpecStats == InitStats /\ [][NextStats]_vars

----------------------------------------------------------------------------
(* SpecPrev: get_previous_close against every combination of source outcomes *)

PrevWorlds == [yahoo : FastInfoKinds, stooq : OutcomeKinds, finnhub : OutcomeKinds]

NextPrev == \E t \in Tickers, w \in PrevWorlds : GetPreviousClose(t, w)

\* Every setting of the provider preference and of the flag: the function
\* reads neither.
SpecPrev == Init /\ [][NextPrev]_vars

----------------------------------------------------------------------------
(* SpecKey: close-series requests that differ in ticker case, days or resolution *)

\* Daily, the default, and weekly.
Resolutions == {DefaultResolution, "W"}

KeyTickers == {TickerLower, TickerUpper}

NextKey ==
    \/ ncalls < MaxCacheCalls
          /\ \E t \in KeyTickers, d \in CacheDays, res \in Resolutions,
                w \in CacheWorlds, q \in CacheQuoteOutcomes :
                GetCandlesClose(t, d, res, w, q)
    \/ ncalls < MaxCacheCalls
          /\ \E t \in KeyTickers, d \in CacheDays, w \in CacheWorlds, q \in CacheQuoteOutcomes :
                GetCandlesRowsForChart(t, d, w, q)

SpecKey == InitAlias /\ [][NextKey]_vars

----------------------------------------------------------------------------
(* SpecThreads: lookups and writes of two threads on one key of one store *)

\* Prices a handler writes.
PutValues == {175, 180}

NextThreads ==
    \/ ncalls < MaxCacheCalls /\ \E th \in Threads : CacheGetRead(th, QuoteKey(TickerLower))
    \/ \E th \in Threads : CacheGetCheck(th)
    \/ \E th \in Threads : CacheGetPop(th)
    \/ ncalls < MaxCacheCalls
          /\ \E th \in Threads, v \in PutValues : CachePut(th, QuoteKey(TickerLower), v)
    \/ \E dt \in TickSteps : Tick(dt)

SpecThreads == InitAlias /\ [][NextThreads]_vars

----------------------------------------------------------------------------
(* SpecRace: get_candles_close on two threads, the adapters answering each walk *)

NextRace ==
    \/ ncalls < MaxCacheCalls
          /\ \E th \in Threads, t \in Tickers, d \in CacheDays : CloseLookup(th, t, d)
    \/ \E th \in Threads, w \in CacheWorlds, q \in CacheQuoteOutcomes : CloseWalk(th, w, q)

SpecRace == InitAlias /\ [][NextRace]_vars

----------------------------------------------------------------------------
(* SpecBoth: both series operations asked for the same ticker and window *)

NextBoth ==
    \/ ncalls < MaxCacheCalls
          /\ \E t \in Tickers, d \in Days, w \in CacheWorlds, q \in CacheQuoteOutcomes :
                GetCandlesClose(t, d, DefaultResolution, w, q)
    \/ ncalls < MaxCacheCalls
          /\ \E t \in Tickers, d \in Days, w \in CacheWorlds, q \in CacheQuoteOutcomes :
                GetCandlesRowsForChart(t, d, w, q)

SpecBoth == InitCache /\ [][NextBoth]_vars

----------------------------------------------------------------------------
(* SpecFlag: the candles-disabled flag set and unset between calls *)

\* The primary raises, the secondary delivers rows newest first.
FlagWorld ==
    [p \in Providers |-> IF p = "finnhub" THEN "raise"
                         ELSE IF p = "yahoo" THEN "desc" ELSE "empty"]

NextFlag ==
    \/ ncalls < MaxCacheCalls
          /\ \E t \in Tickers, d \in CacheDays, q \in CacheQuoteOutcomes :
                GetCandlesClose(t, d, DefaultResolution, FlagWorld, q)
    \/ ncalls < MaxCacheCalls
          /\ \E t \in Tickers, d \in CacheDays, q \in CacheQuoteOutcomes :
                GetCandlesRowsForChart(t, d, FlagWorld, q)
    \/ \E v \in {0, 1} : SetDisableCandles(v)
    \/ \E dt \in TickSteps : Tick(dt)

SpecFlag == InitAlias /\ [][NextFlag]_vars

----------------------------------------------------------------------------
(* SpecQuote: quotes asked for over time, the adapter failing or answering *)

NextQuote ==
    \/ ncalls < MaxCacheCalls /\ \E t \in Spellings, q \in QuoteOutcomes : GetQuote(t, q)
    \/ \E dt \in TickSteps : Tick(dt)

SpecQuote == InitAlias /\ [][NextQuote]_vars

----------------------------------------------------------------------------
(* SpecStatus: debug_status under the settings of CACHE_TTL_SECONDS *)

\* Unset (0), one minute, and the default.
TTLSettings == {0, 60, 600}

\* The process starts with any setting that the import turns into _TTL.
InitStatus ==
    /\ settings \in [DISABLE_CANDLES : {0}, PREFERRED_PROVIDER : {"auto"},
                     CACHE_TTL_SECONDS : {v \in TTLSettings : TTLAtImport(v) = _TTL}]
    /\ now = 0
    /\ cache_q = EmptyStore
    /\ cache_c = EmptyStore
    /\ cache_chart = EmptyStore
    /\ last = NoCall
    /\ ncalls = 0
    /\ hist = EmptyStore
    /\ cleared = {}
    /\ threads = NoThreads

NextStatus ==
    \/ ncalls < MaxCacheCalls /\ \E t \in Spellings, q \in CacheQuoteOutcomes : GetQuote(t, q)
    \/ DebugStatus
    \/ \E v \in TTLSettings : SetCacheTTL(v)
    \/ \E dt \in TickSteps : Tick(dt)

SpecStatus == InitStatus /\ [][NextStatus]_vars

----------------------------------------------------------------------------
(* Claims *)

IsSeriesCall(l) == l.op \in {"get_candles_close", "get_candles_rows_for_chart"}

\* A series call that went past the disabled flag and missed the cache.
IsMissWalk(l) == IsSeriesCall(l) /\ settings.DISABLE_CANDLES # 1 /\ ~l.hit

\* Whether the adapter invocation c gave no rows (it raised, or returned none).
CallFailed(c) == c.out.rows = <<>>

\* The price get_quote hands back for what the quote adapter came to, as its
\* contract states it: the adapter's price, or the sentinel 0.0 on any failure.
QuoteContract(q) == IF q.kind = "price" THEN q.c ELSE 0

\* C1: get_candles_close and get_candles_rows_for_chart never raise to the
\* caller and return a non-empty close sequence, whatever the historical
\* adapters and the quote adapter come to.
C1_SeriesNeverRaisesNorEmpty ==
    IsSeriesCall(last) => (last.exc = "none" /\ Len(last.closes) >= 1)

\* C2: get_quote never raises; when it called the quote adapter it returns
\* the adapter's price on success and the sentinel 0.0 on every failure.
C2_QuoteNeverRaises ==
    last.op = "get_quote" =>
        /\ last.exc = "none"
        /\ last.qcalls # <<>> => last.price = QuoteContract(last.qcalls[1])

\* C3: on a cache miss the adapters are invoked one after another in the
\* provider order, each at most once; an adapter that raised and one that
\* returned no rows both let the walk go on to the next adapter; no adapter
\* is invoked after the first that returned rows; and no adapter's exception
\* reaches the caller.
C3_SequentialWalk ==
    IsMissWalk(last) =>
        LET order == _provider_order(settings.PREFERRED_PROVIDER)
            n == Len(last.calls)
        IN  /\ n >= 1 /\ n <= Len(order)
            /\ \A i \in 1..n : last.calls[i].prov = order[i]
            /\ \A i \in 1..(n - 1) : CallFailed(last.calls[i])
            /\ CallFailed(last.calls[n]) => n = Len(order)
            /\ (~CallFailed(last.calls[n])) => last.exc = "none"
            /\ last.exc # "none" =>
                  (last.qcalls # <<>> /\ last.qcalls[1].kind = "non_numeric")

\* C3 witness: a walk under a non-default ordering whose first adapter raised,
\* whose second returned no rows and whose third returned rows.
C3_Witness ==
    /\ IsMissWalk(last)
    /\ settings.PREFERRED_PROVIDER = "stooq"
    /\ Len(last.calls) = 3
    /\ last.calls[1].out.raised
    /\ ~last.calls[2].out.raised /\ CallFailed(last.calls[2])
    /\ ~CallFailed(last.calls[3])
    /\ last.exc = "none"

\* The index of the first invocation in the log that returned rows.
FirstSuccess(calls) ==
    CHOOSE i \in 1..Len(calls) :
        (~CallFailed(calls[i])) /\ \A j \in 1..(i - 1) : CallFailed(calls[j])

\* The (calendar date, close) pairs of a row sequence.
RowPairs(rows) == {<<rows[i].time \div 24, rows[i].close>> : i \in 1..Len(rows)}

\* C4: a cache-miss chart request that found rows returns (and caches) the
\* label of the first adapter in the ordering that returned rows, and exactly
\* that adapter's rows as its dates and closes, nothing from another adapter;
\* when the primary returned no rows and the secondary returned rows, the
\* label is the secondary's and the tertiary is not invoked.
C4_FirstSuccessWins ==
    (last.op = "get_candles_rows_for_chart" /\ IsMissWalk(last)
        /\ \E i \in 1..Len(last.calls) : ~CallFailed(last.calls[i])) =>
        LET order == _provider_order(settings.PREFERRED_PROVIDER)
            n == Len(last.calls)
            c == last.calls[FirstSuccess(last.calls)]
            key == ChartKey(last.ticker, Max(1, last.days))
        IN  /\ last.exc = "none"
            /\ last.provider = c.prov
            /\ Len(last.closes) = Len(c.out.rows)
            /\ Len(last.dates) = Len(c.out.rows)
            /\ {<<last.dates[i], last.closes[i]>> : i \in 1..Len(last.closes)}
                  = RowPairs(c.out.rows)
            /\ key \in DOMAIN cache_chart
            /\ cache_chart[key].val = ChartVal(last.dates, last.closes, last.provider)
            /\ (n >= 2 /\ (~last.calls[1].out.raised) /\ CallFailed(last.calls[1])
                   /\ ~CallFailed(last.calls[2]))
                  => (last.provider = order[2] /\ n = 2)

\* C4 witness: the primary returned no rows, the secondary two rows, newest
\* first; the chart is labelled with the secondary.
C4_Witness ==
    /\ last.op = "get_candles_rows_for_chart" /\ IsMissWalk(last)
    /\ settings.PREFERRED_PROVIDER = "auto"
    /\ Len(last.calls) = 2
    /\ (~last.calls[1].out.raised) /\ CallFailed(last.calls[1])
    /\ Len(last.calls[2].out.rows) = 2
    /\ last.calls[2].out.rows[1].time > last.calls[2].out.rows[2].time
    /\ last.provider = "yahoo"

\* The price a series call resolved through get_quote: what the quote adapter
\* came to when it was called, the cached price otherwise.
ResolvedQuote(l) ==
    IF l.qcalls # <<>> THEN QuoteContract(l.qcalls[1])
    ELSE cache_q[QuoteKey(l.ticker)].val

\* C5: when all three adapters returned no rows or raised (and get_quote
\* returned), the result is labelled synthetic, has exactly max(2, days)
\* values, each the resolved quote, or 100.0 when that quote is 0.0.
C5_ExhaustionSynthetic ==
    (IsMissWalk(last) /\ last.exc = "none" /\ Len(last.calls) = 3
        /\ \A i \in 1..3 : CallFailed(last.calls[i])) =>
        /\ last.provider = "synthetic"
        /\ Len(last.closes) = (IF last.days >= 2 THEN last.days ELSE 2)
        /\ \A i \in 1..Len(last.closes) :
              last.closes[i] = (IF ResolvedQuote(last) = 0 THEN 100 ELSE ResolvedQuote(last))

\* C6: every sequence get_candles_close returns has at least two entries,
\* none of them negative.
C6_ClosesAtLeastTwoNonNegative ==
    (last.op = "get_candles_close" /\ last.exc = "none") =>
        /\ Len(last.closes) >= 2
        /\ \A i \in 1..Len(last.closes) : last.closes[i] >= 0

\* C7: every series returned or cached with the label synthetic has at least
\* two values.
C7_SyntheticAtLeastTwo ==
    /\ (IsSeriesCall(last) /\ last.exc = "none" /\ last.provider = "synthetic")
          => Len(last.closes) >= 2
    /\ \A k \in DOMAIN cache_chart :
          cache_chart[k].val.provider = "synthetic" => Len(cache_chart[k].val.closes) >= 2

\* Whether the step is one call of the operation op.
IsCallOf(op) == ncalls' = ncalls + 1 /\ last'.op = op

\* C8 as stated: of two successive get_candles_close calls with the same
\* arguments and no clear in between, the second made within _TTL seconds of
\* the first, the second returns the first's sequence and invokes no adapter.
C8_RepeatWithinTTLOfFirstCall ==
    [][(last.op = "get_candles_close" /\ last.exc = "none"
           /\ IsCallOf("get_candles_close")
           /\ last'.ticker = last.ticker /\ last'.days = last.days
           /\ now - last.at <= _TTL)
          => (last'.exc = "none" /\ last'.closes = last.closes /\ last'.calls = <<>>)]_vars

\* C8 amended: a get_candles_close call made within _TTL seconds of the cache
\* miss that stored the series under its key, with no clear since, is a cache
\* hit: it returns the stored sequence and invokes neither a historical
\* adapter nor the quote adapter.
C8_RepeatWithinTTLOfStore ==
    [][IsCallOf("get_candles_close") =>
          \A k \in {CloseKey(last'.ticker, Max(1, last'.days))} :
              (k \in DOMAIN hist /\ now - hist[k].missAt <= _TTL) =>
                  /\ last'.exc = "none"
                  /\ last'.hit
                  /\ last'.closes = hist[k].val
                  /\ last'.calls = <<>>
                  /\ last'.qcalls = <<>>]_vars

\* C8 witness: a repeat exactly _TTL seconds after the miss that stored the
\* series is served from the cache.
C8_Witness ==
    /\ last.op = "get_candles_close" /\ last.hit
    /\ \E k \in {CloseKey(last.ticker, Max(1, last.days))} :
          /\ k \in DOMAIN hist
          /\ last.at = hist[k].missAt + _TTL
          /\ last.closes = hist[k].val

\* The value a call handed back, in the shape its store holds it.
Returned(l) ==
    IF l.op = "get_quote" THEN l.price
    ELSE IF l.op = "get_candles_close" THEN l.closes
    ELSE ChartVal(l.dates, l.closes, l.provider)

\* C9: in each store, a lookup of an absent key reports absent; a lookup of
\* an entry older than _TTL reports absent and deletes it (the key then holds
\* nothing, or what the same call put at the current time); a lookup of an
\* entry of age at most _TTL returns its value and leaves the entry, timestamp
\* included, as it was.  Stated for the lookup each operation starts with and
\* for the quote lookup of a series call that synthesises.
C9_LazyExpiry ==
    [][ncalls' = ncalls + 1 =>
          /\ (last'.op = "get_quote" \/ settings.DISABLE_CANDLES # 1) =>
                \E store \in {IF last'.op = "get_quote" THEN cache_q
                              ELSE IF last'.op = "get_candles_close" THEN cache_c
                              ELSE cache_chart},
                   after \in {IF last'.op = "get_quote" THEN cache_q'
                              ELSE IF last'.op = "get_candles_close" THEN cache_c'
                              ELSE cache_chart'},
                   key \in {IF last'.op = "get_quote" THEN QuoteKey(last'.ticker)
                            ELSE IF last'.op = "get_candles_close"
                                 THEN CloseKey(last'.ticker, Max(1, last'.days))
                                 ELSE ChartKey(last'.ticker, Max(1, last'.days))} :
                    /\ key \notin DOMAIN store => ~last'.hit
                    /\ (key \in DOMAIN store /\ now - store[key].ts > _TTL) =>
                          /\ ~last'.hit
                          /\ key \notin DOMAIN after \/ after[key].ts = now
                    /\ (key \in DOMAIN store /\ now - store[key].ts <= _TTL) =>
                          /\ last'.hit
                          /\ last'.age = now - store[key].ts
                          /\ Returned(last') = store[key].val
                          /\ after[key] = store[key]
          /\ (IsSeriesCall(last') /\ last'.provider = "synthetic" /\ ~last'.hit) =>
                \E key \in {QuoteKey(last'.ticker)} :
                    /\ last'.qcalls = <<>> <=>
                          (key \in DOMAIN cache_q /\ now - cache_q[key].ts <= _TTL)
                    /\ last'.qcalls = <<>> =>
                          /\ cache_q'[key] = cache_q[key]
                          /\ \A i \in 1..Len(last'.closes) :
                                last'.closes[i] = OrPlaceholder(cache_q[key].val)
                    /\ (key \in DOMAIN cache_q /\ now - cache_q[key].ts > _TTL) =>
                          key \notin DOMAIN cache_q' \/ cache_q'[key].ts = now]_vars

\* C9 witness: get_quote found an entry older than _TTL, deleted it, and the
\* quote adapter failed, so the key holds nothing afterwards.
C9_Witness ==
    /\ last.op = "get_quote" /\ ~last.hit
    /\ last.age > _TTL
    /\ last.price = 0
    /\ QuoteKey(last.ticker) \notin DOMAIN cache_q

\* C10: the first series call for a key that was cached when
\* debug_clear_cache ran is not served from the cache: it invokes at least
\* one adapter.
C10_ClearForcesWalk ==
    (IsSeriesCall(last) /\ last.afterClear) => (~last.hit /\ last.calls # <<>>)

\* C10 witness: such a call, for a chart key, after which the key is cached anew.
C10_Witness ==
    /\ last.op = "get_candles_rows_for_chart" /\ last.afterClear
    /\ last.calls # <<>>
    /\ ChartKey(last.ticker, Max(1, last.days)) \in DOMAIN cache_chart

\* Whether the step is one call of debug_clear_cache (the only operation
\* that leaves both the clock and the call count as they were).
IsClearStep == now' = now /\ ncalls' = ncalls /\ last'.op = "debug_clear_cache"

\* C11: debug_clear_cache leaves all three stores empty and returns, per
\* store, the number of entries it held just before, which is the number of
\* entries the call removed.
C11_ClearReportsRemoved ==
    [][(IsClearStep /\ vars' # vars) =>
          /\ cache_q' = EmptyStore /\ cache_c' = EmptyStore /\ cache_chart' = EmptyStore
          /\ last'.counts.quotes = Cardinality(DOMAIN cache_q)
          /\ last'.counts.candles = Cardinality(DOMAIN cache_c)
          /\ last'.counts.chart = Cardinality(DOMAIN cache_chart)
          /\ last'.counts.quotes = Cardinality((DOMAIN cache_q) \ DOMAIN cache_q')
          /\ last'.counts.candles = Cardinality((DOMAIN cache_c) \ DOMAIN cache_c')
          /\ last'.counts.chart = Cardinality((DOMAIN cache_chart) \ DOMAIN cache_chart')]_vars

\* C11 witness: a clear that removed one quote, two close series and one
\* chart series.
C11_Witness ==
    /\ last.op = "debug_clear_cache"
    /\ last.counts = [quotes |-> 1, candles |-> 2, chart |-> 1]
    /\ cache_q = EmptyStore /\ cache_c = EmptyStore /\ cache_chart = EmptyStore

\* Whether order lists each of the three adapters exactly once.
IsPermutation(order) == Len(order) = 3 /\ {order[i] : i \in 1..3} = Providers

\* The rankings of the three adapters, one of which is the fallback order.
FallbackRanks ==
    {f \in [Providers -> 1..3] : \A a, b \in Providers : a # b => f[a] # f[b]}

\* C12: for every configured preference _provider_order returns a
\* permutation of the three adapters; a preferred vendor comes first; the
\* default and unrecognised values give finnhub, yahoo, stooq; and there is
\* one ranking of the adapters that the two adapters after the first follow
\* whatever the preference.  A walk that tries all three follows that order.
C12_ProviderOrder ==
    /\ \A pref \in PrefValues :
          LET order == _provider_order(pref) IN
              /\ IsPermutation(order)
              /\ Lower(pref) \in Providers => order[1] = Lower(pref)
              /\ Lower(pref) \notin Providers => order = <<"finnhub", "yahoo", "stooq">>
    /\ \E f \in FallbackRanks :
          \A pref \in PrefValues :
              f[_provider_order(pref)[2]] < f[_provider_order(pref)[3]]
    /\ (IsMissWalk(last) /\ Len(last.calls) = 3) =>
          [i \in 1..3 |-> last.calls[i].prov] = _provider_order(settings.PREFERRED_PROVIDER)

\* C12 witness: with stooq preferred, a walk tried stooq, yahoo, finnhub.
C12_Witness ==
    /\ IsMissWalk(last)
    /\ Lower(settings.PREFERRED_PROVIDER) = "stooq"
    /\ Len(last.calls) = 3
    /\ [i \in 1..3 |-> last.calls[i].prov] = <<"stooq", "yahoo", "finnhub">>

\* C13: with the candles-disabled flag set, a series call invokes no
\* historical adapter and, when get_quote returns, gives a flat series of the
\* get_quote result (100.0 when that is 0.0); for days >= 2 it has exactly
\* days points, and the chart variant is labelled synthetic and dated with
\* the days consecutive calendar days ending today.
C13_DisabledFlat ==
    (IsSeriesCall(last) /\ settings.DISABLE_CANDLES = 1) =>
        /\ last.calls = <<>>
        /\ last.exc = "none" =>
              /\ last.closes # <<>>
              /\ \A i \in 1..Len(last.closes) :
                    last.closes[i] = (IF ResolvedQuote(last) = 0 THEN 100
                                      ELSE ResolvedQuote(last))
              /\ last.days >= 2 => Len(last.closes) = last.days
              /\ last.op = "get_candles_rows_for_chart" =>
                    /\ last.provider = "synthetic"
                    /\ Len(last.dates) = last.days
                    /\ \A i \in 1..Len(last.dates) :
                          last.dates[i] = (last.at \div 86400) - (last.days - i)

\* C13 witness: the request of tests/test_chart.py, made on day 1 with the
\* quote adapter failing: ten points of 100.0 dated day -8 to day 1.
C13_Witness ==
    /\ last.op = "get_candles_rows_for_chart" /\ settings.DISABLE_CANDLES = 1
    /\ last.days = TestDays /\ last.at = 86400
    /\ last.qcalls # <<>> /\ last.qcalls[1].kind = "http_error"
    /\ Len(last.closes) = 10 /\ last.closes[1] = 100
    /\ last.dates[1] = -8 /\ last.dates[10] = 1

\* C14: every value get_candles_rows_for_chart returns, on the disabled-flag
\* path, a cache hit, an adapter success or the synthetic path, after any
\* sequence of calls, has as many dates as closes; so has every value held in
\* the chart store.
C14_DatesParallelCloses ==
    /\ (last.op = "get_candles_rows_for_chart" /\ last.exc = "none") =>
          Len(last.dates) = Len(last.closes)
    /\ \A k \in DOMAIN cache_chart :
          Len(cache_chart[k].val.dates) = Len(cache_chart[k].val.closes)

\* C14 witness: a cache hit that returned two dates and two closes of yahoo.
C14_Witness ==
    /\ last.op = "get_candles_rows_for_chart" /\ last.hit
    /\ last.provider = "yahoo"
    /\ Len(last.dates) = 2 /\ Len(last.closes) = 2

\* C15: what a series call hands to its caller shares no state with the
\* cache: whatever the caller does to the returned lists, a later call for
\* the same key within _TTL of the miss that stored it, with no clear in
\* between, returns the contents that miss stored.
C15_NoSharedState ==
    [][(ncalls' = ncalls + 1 /\ IsSeriesCall(last')) =>
          \A k \in {IF last'.op = "get_candles_close"
                    THEN CloseKey(last'.ticker, Max(1, last'.days))
                    ELSE ChartKey(last'.ticker, Max(1, last'.days))} :
              (k \in DOMAIN hist /\ now - hist[k].missAt <= _TTL) =>
                  Returned(last') = hist[k].val]_vars

\* C16: get_quote treats the ticker case-insensitively and trimmed: when the
\* quote store holds an entry not older than _TTL that was stored for a
\* ticker differing from the requested one only in letter case or in leading
\* or trailing spaces, the call returns that entry's price and does not call
\* the quote adapter.
C16_QuoteTickerNormalised ==
    [][IsCallOf("get_quote") =>
          \A k \in DOMAIN cache_q :
              (Upper(Strip(k[2])) = Upper(Strip(last'.ticker))
                  /\ now - cache_q[k].ts <= _TTL) =>
                  /\ last'.hit
                  /\ last'.price = cache_q[k].val
                  /\ last'.qcalls = <<>>]_vars

\* The closes of rows in ascending order of their (distinct) times: the close
\* of each row stands at one plus the number of rows earlier than it.
IsAscendingClosesOf(closes, rows) ==
    /\ Len(closes) = Len(rows)
    /\ \A i \in 1..Len(rows) :
          closes[1 + Cardinality({j \in 1..Len(rows) : rows[j].time < rows[i].time})]
              = rows[i].close

\* C17: whatever the order in which the adapter delivered its rows, the
\* closes a cache-miss series call returns, and caches, are those of the rows
\* in ascending order of time.
C17_ClosesAscendingByTime ==
    (IsMissWalk(last) /\ last.exc = "none"
        /\ \E i \in 1..Len(last.calls) : ~CallFailed(last.calls[i])) =>
        LET rows == last.calls[FirstSuccess(last.calls)].out.rows IN
            /\ IsAscendingClosesOf(last.closes, rows)
            /\ last.op = "get_candles_close" =>
                  IsAscendingClosesOf(
                      cache_c[CloseKey(last.ticker, Max(1, last.days))].val, rows)
            /\ last.op = "get_candles_rows_for_chart" =>
                  IsAscendingClosesOf(
                      cache_chart[ChartKey(last.ticker, Max(1, last.days))].val.closes, rows)

\* The number of positive closes, the position of the k-th of them, and the
\* return from the k-th positive close to the next.
NumPositive(closes) == Cardinality({i \in 1..Len(closes) : closes[i] > 0})

PositiveAt(closes, k) ==
    CHOOSE i \in 1..Len(closes) :
        closes[i] > 0 /\ Cardinality({j \in 1..(i - 1) : closes[j] > 0}) = k - 1

ReturnAt(closes, k) ==
    Rat(closes[PositiveAt(closes, k + 1)] - closes[PositiveAt(closes, k)],
        closes[PositiveAt(closes, k)])

\* The population variance of the returns, as the mean of their squares less
\* the square of their mean.
PopulationVariance(closes) ==
    LET m == NumPositive(closes) - 1
        rs == [k \in 1..m |-> ReturnAt(closes, k)]
        meanOfSquares == RatDiv(RatSum([k \in 1..m |-> RatMul(rs[k], rs[k])]), Rat(m, 1))
        mean == RatDiv(RatSum(rs), Rat(m, 1))
    IN  RatSub(meanOfSquares, RatMul(mean, mean))

\* C18: compute_volatility returns 0.0 when the closes give fewer than two
\* returns (fewer than three positive closes: empty, one or two elements
\* included), and otherwise the population standard deviation of the returns
\* times sqrt(252); in squares, 252 times their population variance.
C18_VolatilityIsScaledPstdev ==
    last.op = "compute_volatility" =>
        IF NumPositive(last.closes) < 3
        THEN last.vol = Zero
        ELSE last.vol = RatMul(Rat(252, 1), PopulationVariance(last.closes))

\* C18 witness: [1, 0, 2, 2] has the returns 1 and 0, of population variance
\* 1/4: the squared volatility is 63.
C18_Witness ==
    /\ last.op = "compute_volatility"
    /\ last.closes = <<1, 0, 2, 2>>
    /\ last.vol = Rat(63, 1)

\* Whether all closes are the same.
IsConstant(closes) == \A i \in 1..Len(closes) : closes[i] = closes[1]

\* C19 as stated: a series of exactly one return of +10% has a nonzero finite
\* volatility; a constant series of length >= 2 has volatility 0.0.
C19_OneReturnNonzero ==
    last.op = "compute_volatility" =>
        /\ (Len(last.closes) = 2 /\ last.closes[1] > 0
               /\ 10 * (last.closes[2] - last.closes[1]) = last.closes[1])
              => (last.vol.n > 0 /\ last.vol.d > 0)
        /\ (Len(last.closes) >= 2 /\ IsConstant(last.closes)) => last.vol = Zero

\* C19 amended: a series of exactly one return (two positive closes, such as
\* [100, 110]) has volatility 0.0, as has a constant series of length >= 2; a
\* series of two or more returns that are not all equal has a nonzero finite
\* volatility.
C19_OneReturnZero ==
    last.op = "compute_volatility" =>
        /\ NumPositive(last.closes) = 2 => last.vol = Zero
        /\ (Len(last.closes) >= 2 /\ IsConstant(last.closes)) => last.vol = Zero
        /\ (NumPositive(last.closes) >= 3
               /\ \E k, l \in 1..(NumPositive(last.closes) - 1) :
                     ReturnAt(last.closes, k) # ReturnAt(last.closes, l))
              => (last.vol.n > 0 /\ last.vol.d > 0)

\* C19 witness: [100, 110], one return of +10%, has volatility 0.0.
C19_Witness ==
    /\ last.op = "compute_volatility"
    /\ last.closes = <<100, 110>>
    /\ last.vol = Zero

\* C20: simple_trend_score returns a value in [-1, +1] for every close
\* sequence, whatever its length and the signs of its entries.
C20_TrendScoreBounded ==
    last.op = "simple_trend_score" =>
        /\ last.score.d > 0
        /\ -last.score.d <= last.score.n
        /\ last.score.n <= last.score.d

\* C20 witness: 21 closes, the last 20 being nineteen 1s and a 3: the raw
\* score 19/11 is cut to 1.
C20_Witness ==
    /\ last.op = "simple_trend_score"
    /\ Len(last.closes) = 21
    /\ last.closes[2] = 1 /\ last.closes[21] = 3
    /\ last.score = One

\* The sum of closes[i..Len(closes)].
RECURSIVE SumFrom(_, _)
SumFrom(closes, i) == IF i > Len(closes) THEN 0 ELSE closes[i] + SumFrom(closes, i + 1)

\* C21: simple_trend_score is 0.0 for fewer than 5 closes or a trailing mean
\* (over the last min(20, n) closes) that is not positive, and otherwise
\* (last - sma) / sma cut to [-1, 1]; so a constant series scores 0.0 and
\* [100] * 20 + [130] scores a positive value not above 1.0.  With S the sum
\* of the trailing m closes, (last - sma) / sma = (m * last - S) / S.
C21_TrendScoreDefinition ==
    last.op = "simple_trend_score" =>
        LET n == Len(last.closes)
            m == IF n < 20 THEN n ELSE 20
            S == SumFrom(last.closes, n - m + 1)
        IN  /\ IF n < 5 \/ S <= 0
               THEN last.score = Zero
               ELSE LET num == m * last.closes[n] - S IN
                    IF num > S THEN last.score = One
                    ELSE IF num < -S THEN last.score = MinusOne
                    ELSE last.score.n * S = num * last.score.d
            /\ IsConstant(last.closes) => last.score = Zero
            /\ last.closes = TrendExample =>
                  (last.score.n > 0 /\ last.score.n <= last.score.d)

\* C21 witness: [100] * 20 + [130] scores (130 - 101.5) / 101.5 = 57/203.
C21_Witness ==
    /\ last.op = "simple_trend_score"
    /\ last.closes = TrendExample
    /\ last.score = [n |-> 57, d |-> 203]

\* Whether a source of get_previous_close yielded a value.
Yielded(c) ==
    IF c.prov = "yahoo" THEN (~c.out.raised) /\ c.out.has
    ELSE (~c.out.raised) /\ c.out.rows # <<>>

\* The value a source yielded: the fast_info field, or the close of the row
\* of the greatest time.
YieldOf(c) ==
    IF c.prov = "yahoo" THEN c.out.prev
    ELSE (CHOOSE r \in {c.out.rows[i] : i \in 1..Len(c.out.rows)} :
              \A i \in 1..Len(c.out.rows) : c.out.rows[i].time <= r.time).close

\* That a call of get_previous_close tried its sources in the given order,
\* stopped at the first that yielded a value and returned that value, and
\* returned None exactly when all of them had been tried in vain.
TriesInOrder(l, order) ==
    LET n == Len(l.calls) IN
        /\ n >= 1 /\ n <= Len(order)
        /\ \A i \in 1..n : l.calls[i].prov = order[i]
        /\ \A i \in 1..(n - 1) : ~Yielded(l.calls[i])
        /\ Yielded(l.calls[n]) => (~l.isNone /\ l.price = YieldOf(l.calls[n]))
        /\ (~Yielded(l.calls[n])) => (n = Len(order) /\ l.isNone)

\* C22 as stated: get_previous_close tries its sources in the vendor roles of
\* the default provider ordering (finnhub, then yahoo, then stooq).
C22_PreviousCloseDefaultRoles ==
    last.op = "get_previous_close" => TriesInOrder(last, _provider_order("auto"))

\* C22 amended: get_previous_close never raises and tries Yahoo's fast_info
\* field, then Stooq's 10-day window, then Finnhub's; it returns the value of
\* the first source that yields one, consulting no later source, and None
\* exactly when all three fail or yield nothing.
C22_PreviousCloseOrder ==
    last.op = "get_previous_close" =>
        (last.exc = "none" /\ TriesInOrder(last, <<"yahoo", "stooq", "finnhub">>))

\* C22 witness: fast_info has no previous close, Stooq raises, Finnhub
\* delivers its rows newest first; the latest Finnhub close is returned.
C22_Witness ==
    /\ last.op = "get_previous_close"
    /\ Len(last.calls) = 3
    /\ ~last.calls[1].out.raised
    /\ last.calls[2].out.raised
    /\ Len(last.calls[3].out.rows) >= 2
    /\ last.calls[3].out.rows[1].time > last.calls[3].out.rows[2].time
    /\ ~last.isNone
    /\ last.price = 20

\* C23: a close-series request is served from the cache only by an entry that
\* a close-series request of the same upper-cased ticker, days and resolution
\* stored; the close-series and the chart store hold no key in common.
C23_KeySeparatesRequests ==
    /\ (DOMAIN cache_c) \cap (DOMAIN cache_chart) = {}
    /\ (last.op = "get_candles_close" /\ last.hit) =>
           LET key == CloseKey(last.ticker, Max(1, last.days)) IN
               /\ key \in DOMAIN hist
               /\ hist[key].resolution = last.resolution

\* The labels a series may carry.
ProviderLabels == Providers \cup {"synthetic"}

\* C24: every entry of the close-series store and of the chart store carries a
\* provider label out of finnhub, yahoo, stooq, synthetic, and the label of an
\* entry is the source that produced the series when the entry was stored.
C24_EntriesCarryProviderLabel ==
    /\ \A k \in DOMAIN cache_chart :
          /\ ChartEntryLabel(cache_chart[k].val) \in ProviderLabels
          /\ k \in DOMAIN hist => ChartEntryLabel(cache_chart[k].val) = hist[k].val.provider
    /\ \A k \in DOMAIN cache_c : CloseEntryLabel(cache_c[k].val) \in ProviderLabels

\* C25: the lazy removal of a lookup deletes only an expired entry: whatever
\* the interleaving of the lookups and writes of the threads, the entry that
\* the pop of a lookup removes is older than the TTL.
C25_PopDeletesOnlyExpired ==
    [][\A th \in Threads :
          (threads[th].pc = "pop" /\ threads'[th].pc = "idle"
              /\ threads[th].key \in DOMAIN cache_q)
          => now - cache_q[threads[th].key].ts > _TTL]_vars

\* Both threads have returned from walks for one key that overlapped.
BothRaced ==
    /\ \A th \in Threads :
          threads[th].pc = "idle" /\ threads[th].returned /\ threads[th].raced
    /\ \A a, b \in Threads : threads[a].key = threads[b].key

\* C26 as stated: two overlapping walks for one key return the same series
\* and the store holds that series.
C26_RaceSameSeries ==
    BothRaced =>
        \A a, b \in Threads :
            /\ threads[a].ret = threads[b].ret
            /\ threads[a].key \in DOMAIN cache_c
            /\ cache_c[threads[a].key].val = threads[a].ret

\* C26 amended: after two overlapping walks for one key the store holds
\* exactly the series of the request that wrote last; the two requests return
\* the same series when the adapters gave both walks the same outcomes.
C26_RaceLastWriterWins ==
    BothRaced =>
        \A a, b \in Threads :
            /\ threads[a].key \in DOMAIN cache_c
            /\ last.op = "get_candles_close" /\ ~last.hit
            /\ cache_c[threads[a].key].val = last.closes
            /\ \E th \in Threads : threads[th].ret = last.closes
            /\ threads[a].seen = threads[b].seen => threads[a].ret = threads[b].ret

\* C26 witness: two overlapping walks for one key that returned different
\* series, the store holding the later one.
C26_Witness ==
    /\ BothRaced
    /\ threads["t1"].ret # threads["t2"].ret
    /\ cache_c[threads["t1"].key].val = last.closes

\* C27: when get_candles_close and then get_candles_rows_for_chart are asked
\* for the same ticker and days, neither served from a series cache, and both
\* meet the same adapter and quote outcomes, the closes of the chart equal the
\* closes of get_candles_close, in length, values and order.
C27_ClosesAgreeAcrossOperations ==
    [][(/\ last.op = "get_candles_close" /\ last'.op = "get_candles_rows_for_chart"
        /\ last.exc = "none" /\ last'.exc = "none"
        /\ ~last.hit /\ ~last'.hit
        /\ last.ticker = last'.ticker /\ last.days = last'.days
        /\ last.calls = last'.calls
        /\ (last'.qcalls = last.qcalls \/ last'.qcalls = <<>>))
       => last'.closes = last.closes]_vars

\* A step that is a call of one of the two series operations.
IsSeriesStep ==
    /\ ncalls' = ncalls + 1
    /\ last'.op \in {"get_candles_close", "get_candles_rows_for_chart"}

\* C28: a series call made while DISABLE_CANDLES is 1 leaves the close-series
\* store and the chart store exactly as they were, is not a cache hit, asks
\* no historical adapter, and returns the flat synthetic series rather than
\* anything the stores hold.
C28_DisabledLeavesSeriesStores ==
    [][(IsSeriesStep /\ settings.DISABLE_CANDLES = 1) =>
          /\ cache_c' = cache_c
          /\ cache_chart' = cache_chart
          /\ ~last'.hit
          /\ last'.calls = <<>>
          /\ last'.exc = "none" =>
                /\ last'.provider = "synthetic"
                /\ IsConstant(last'.closes)]_vars

\* C28 witness: the close-series store holds a real, non-constant series
\* stored before the flag was set, and a get_candles_close for its key has
\* just returned the synthetic series.
C28_Witness ==
    /\ settings.DISABLE_CANDLES = 1
    /\ last.op = "get_candles_close" /\ last.exc = "none"
    /\ last.provider = "synthetic"
    /\ LET key == CloseKey(last.ticker, Max(1, last.days)) IN
          /\ key \in DOMAIN cache_c
          /\ ~IsConstant(cache_c[key].val)
          /\ last.at - cache_c[key].ts <= _TTL

\* A step that is a get_quote call whose adapter was asked and failed.
IsFailedQuoteStep ==
    /\ ncalls' = ncalls + 1
    /\ last'.op = "get_quote"
    /\ last'.qcalls # <<>>
    /\ get_price(last'.qcalls[1]).exc # "none"

\* C29 as stated: a get_quote call whose adapter fails leaves the quote store
\* exactly as it was.
C29_FailedQuoteLeavesCache ==
    [][IsFailedQuoteStep => cache_q' = cache_q]_vars

\* C29 amended: a get_quote call whose adapter fails writes nothing to the
\* quote store and alters no entry; the one change it can make is the lazy
\* removal of the expired entry of its own key. Afterwards the key is absent,
\* so the next get_quote for the ticker asks the adapter again. An entry
\* appears or changes only in a call whose adapter returned a price, and holds
\* that price.
C29_FailedQuoteWritesNothing ==
    [][/\ IsFailedQuoteStep =>
            LET key == QuoteKey(last'.ticker) IN
                /\ key \notin DOMAIN cache_q'
                /\ \A k \in DOMAIN cache_q' : k \in DOMAIN cache_q /\ cache_q'[k] = cache_q[k]
                /\ \A k \in (DOMAIN cache_q) \ (DOMAIN cache_q') :
                      k = key /\ now - cache_q[k].ts > _TTL
       /\ \A k \in DOMAIN cache_q' :
            (k \notin DOMAIN cache_q \/ cache_q'[k] # cache_q[k]) =>
                /\ last'.op = "get_quote" /\ last'.qcalls # <<>>
                /\ get_price(last'.qcalls[1]).exc = "none"
                /\ k = QuoteKey(last'.ticker)
                /\ cache_q'[k].val = get_price(last'.qcalls[1]).val]_vars

\* C29 witness: the adapter has just failed in a call whose lookup found the
\* entry of its key older than the TTL; the key is gone from the store, and
\* the caller got 0.0.
C29_Witness ==
    /\ last.op = "get_quote" /\ last.exc = "none" /\ last.price = 0
    /\ last.qcalls # <<>>
    /\ last.age > _TTL
    /\ QuoteKey(last.ticker) \notin DOMAIN cache_q

\* C30: the CACHE_TTL_SECONDS that debug_status reports is the TTL that
\* _cache_get applies to decide whether an entry is expired.
C30_StatusReportsAppliedTTL ==
    last.op = "debug_status" => last.ttl = _TTL

====
